---------------------------- MODULE Spec2Model ----------------------------
(***************************************************************************)
(* Model of nurbs/utilities.py: knot-vector utilities, the span locator    *)
(* (Algorithm A2.1), the basis-function evaluator (A2.2) and the           *)
(* basis-function derivative evaluator (A2.3).                             *)
(*                                                                         *)
(* Python floats are modelled as exact rationals [n, d] (d > 0, lowest     *)
(* terms); the record with d = 0 stands for Python's None.  Knot values    *)
(* and parameters are drawn from an integer grid in which knots are even,  *)
(* so that a parameter can sit on a knot or strictly between two knots.    *)
(* Python lists are sequences; a Python index i is position i+1, and a     *)
(* negative Python index counts from the end, as in the language.          *)
(*                                                                         *)
(* The functions are pure, so a behaviour is one call chain from the idle  *)
(* state: either one knot-vector utility call, or find_span (stepped       *)
(* through its loop) followed by basis_functions and then                  *)
(* basis_functions_ders on its span.                                       *)
(***************************************************************************)
EXTENDS Integers, Sequences, FiniteSets, TLC

VARIABLES pc, degree, knotvector, knot, low, high, mid, span, bfuncs, dres, kvout

vars == <<pc, degree, knotvector, knot, low, high, mid, span, bfuncs, dres, kvout>>

(* ------------------------------ bounds -------------------------------- *)
MaxDegree == 2
MaxInterior == 2
MaxKnot == 3
MaxLen == 3

(* --------------------------- exact numbers ---------------------------- *)
None == [n |-> 0, d |-> 0]
IsNone(x) == x.d = 0

Abs(i) == IF i < 0 THEN -i ELSE i

RECURSIVE GCD(_, _)
GCD(a, b) == IF b = 0 THEN a ELSE GCD(b, a % b)

Norm(n, d) ==
    IF d = 0 THEN None
    ELSE LET g == GCD(Abs(n), Abs(d))
             sg == IF d < 0 THEN -1 ELSE 1
         IN [n |-> sg * (n \div g), d |-> sg * (d \div g)]

R(i) == [n |-> i, d |-> 1]
Zero == R(0)
One == R(1)
RAdd(x, y) == Norm(x.n * y.d + y.n * x.d, x.d * y.d)
RSub(x, y) == Norm(x.n * y.d - y.n * x.d, x.d * y.d)
RMul(x, y) == Norm(x.n * y.n, x.d * y.d)
RDiv(x, y) == Norm(x.n * y.d, x.d * y.n)
RNeg(x) == [n |-> -x.n, d |-> x.d]
RLeq(x, y) == x.n * y.d <= y.n * x.d
RLess(x, y) == x.n * y.d < y.n * x.d

(* ---------------------------- Python lists ---------------------------- *)
PyInRange(len, i) == -len <= i /\ i < len
PyPos(len, i) == IF i < 0 THEN i + len + 1 ELSE i + 1
PyGet(list, i) ==
    IF PyInRange(Len(list), i) THEN list[PyPos(Len(list), i)] ELSE None
PySet(list, i, v) ==
    IF PyInRange(Len(list), i)
    THEN [list EXCEPT ![PyPos(Len(list), i)] = v] ELSE list
PyIn2(t, i, j) ==
    PyInRange(Len(t), i) /\ PyInRange(Len(t[PyPos(Len(t), i)]), j)
PyGet2(t, i, j) ==
    IF PyIn2(t, i, j) THEN PyGet(t[PyPos(Len(t), i)], j) ELSE None
PySet2(t, i, j, v) ==
    IF PyIn2(t, i, j)
    THEN [t EXCEPT ![PyPos(Len(t), i)] = PySet(@, j, v)] ELSE t
Plain(len, i) == 0 <= i /\ i < len
Plain2(t, i, j) == Plain(Len(t), i) /\ Plain(Len(t[i + 1]), j)
Fill(len, v) == [i \in 1..len |-> v]

(* One statement of a function body; an exception (err # "") ends every   *)
(* loop and the call.  s is the frame before it, t the     *)
(* frame after it when nothing fails; pyok: every subscript is one Python *)
(* accepts; plain: every subscript lies in 0..len-1; vals: the values     *)
(* read; divs: the divisors.                                              *)
Do(s, pyok, plain, vals, divs, t) ==
    IF s.err # "" THEN s
    ELSE IF ~pyok THEN [s EXCEPT !.err = "IndexError", !.idxOK = FALSE]
    ELSE IF \E v \in vals : IsNone(v)
         THEN [s EXCEPT !.err = "TypeError", !.initOK = FALSE,
                        !.idxOK = s.idxOK /\ plain]
    ELSE IF \E v \in divs : v.n = 0
         THEN [s EXCEPT !.err = "ZeroDivisionError", !.divOK = FALSE,
                        !.idxOK = s.idxOK /\ plain]
    ELSE [t EXCEPT !.idxOK = s.idxOK /\ plain,
                   !.divOK = s.divOK /\ \A v \in divs : v.n > 0]

(* ------------------------- normalize_knotvector ----------------------- *)
(* Variant: the divisor forgets to subtract first_knot.                   *)
NK_ScaleByLast(x, first, last) == RDiv(R(x - first), R(last))
(* knotvector_out.append((float(kv) - first_knot) / (last_knot - first_knot)) *)
NK_Scale(x, first, last) == RDiv(R(x - first), R(last - first))

NK_Append(s, kv, i) ==
    LET first == kv[1]
        last == kv[Len(kv)]
    IN Do(s, TRUE, TRUE, {}, {R(last - first)},
          [s EXCEPT !.out = Append(@, NK_Scale(kv[i], first, last))])

RECURSIVE NK_Loop(_, _, _)
NK_Loop(s, kv, i) ==
    IF i <= Len(kv) /\ s.err = "" THEN NK_Loop(NK_Append(s, kv, i), kv, i + 1) ELSE s

normalize_knotvector(kv) ==
    IF Len(kv) = 0
    THEN [op |-> "normalize", arg |-> kv, err |-> "", value |-> <<>>]
    ELSE LET s == NK_Loop([err |-> "", idxOK |-> TRUE, divOK |-> TRUE,
                           initOK |-> TRUE, out |-> <<>>], kv, 1)
         IN [op |-> "normalize", arg |-> kv, err |-> s.err,
             value |-> IF s.err = "" THEN s.out ELSE <<>>]

(* -------------------------- autogen_knotvector ------------------------ *)
knot_min == Zero
knot_max == One

AG_NumKnots(d, nc) == d + nc + 1
(* Variant: the segment count forgets the +1.                             *)
AG_NumSegmentsShort(d, nc) == AG_NumKnots(d, nc) - (d + 1) * 2
AG_NumSegments(d, nc) == (AG_NumKnots(d, nc) - (d + 1) * 2) + 1

(* while i < bound: knotvector.append(v); i += 1 *)
RECURSIVE AG_Fill(_, _, _)
AG_Fill(s, bound, v) ==
    IF s.i < bound /\ s.err = ""
    THEN AG_Fill([s EXCEPT !.out = Append(@, v), !.i = @ + 1], bound, v)
    ELSE s

(* spacing = (knot_max - knot_min) / num_segments; midknot = knot_min + spacing *)
AG_Spacing(s, d, nc) ==
    LET sp == RDiv(RSub(knot_max, knot_min), R(AG_NumSegments(d, nc)))
    IN IF AG_NumSegments(d, nc) = 0
       THEN [s EXCEPT !.err = "ZeroDivisionError"]
       ELSE [s EXCEPT !.spacing = sp, !.midknot = RAdd(knot_min, sp)]

AG_MidBound(d, nc) == AG_NumKnots(d, nc) - (d + 1)

(* while i < m-(degree+1): knotvector.append(midknot); midknot += spacing; i += 1 *)
RECURSIVE AG_Middle(_, _)
AG_Middle(s, bound) ==
    IF s.i < bound /\ s.err = ""
    THEN AG_Middle([s EXCEPT !.out = Append(@, s.midknot),
                             !.midknot = RAdd(@, s.spacing), !.i = @ + 1], bound)
    ELSE s

autogen_knotvector(d, nc) ==
    IF d = 0 \/ nc = 0
    THEN [op |-> "autogen", degree |-> d, num_ctrlpts |-> nc,
          err |-> "ValueError", value |-> <<>>]
    ELSE LET s0 == [err |-> "", out |-> <<>>, i |-> 0,
                    spacing |-> Zero, midknot |-> Zero]
             s1 == AG_Fill(s0, d + 1, knot_min)
             s2 == AG_Spacing(s1, d, nc)
             s3 == AG_Middle(s2, AG_MidBound(d, nc))
             s4 == AG_Fill(s3, AG_NumKnots(d, nc), knot_max)
         IN [op |-> "autogen", degree |-> d, num_ctrlpts |-> nc,
             err |-> s4.err, value |-> IF s4.err = "" THEN s4.out ELSE <<>>]

(* ----------------------------- find_span ------------------------------ *)
At(kv, i) == kv[i + 1]
NumKnots(kv) == Len(kv) - 1
LastBasis(d, kv) == NumKnots(kv) - d - 1

(* Variant: the end test looks at knotvector[n] instead of [n+1].         *)
AtLastBasis(d, kv, u) == At(kv, LastBasis(d, kv)) = u
AtUpperEnd(d, kv, u) == At(kv, LastBasis(d, kv) + 1) = u
Mid(lo, hi) == (lo + hi) \div 2
(* Variant: the upper comparison is strict.                               *)
LoopCondInclusive(kv, md, u) == u < At(kv, md) \/ u > At(kv, md + 1)
LoopCond(kv, md, u) == u < At(kv, md) \/ u >= At(kv, md + 1)
GoLeft(kv, md, u) == u < At(kv, md)

(* --------------------------- basis_functions -------------------------- *)
BF_Init(d) ==
    [err |-> "", idxOK |-> TRUE, divOK |-> TRUE, initOK |-> TRUE,
     left |-> Fill(d + 1, Zero), right |-> Fill(d + 1, Zero),
     out |-> <<One>>, saved |-> Zero]

(* left[j] = knot - knotvector[span+1-j]; right[j] = knotvector[span+j] - knot; saved = 0.0 *)
BF_Knots(s, kv, sp, u, j) ==
    Do(s,
       PyInRange(Len(kv), sp + 1 - j) /\ PyInRange(Len(kv), sp + j)
         /\ PyInRange(Len(s.left), j) /\ PyInRange(Len(s.right), j),
       Plain(Len(kv), sp + 1 - j) /\ Plain(Len(kv), sp + j)
         /\ Plain(Len(s.left), j) /\ Plain(Len(s.right), j),
       {}, {},
       [s EXCEPT !.left = PySet(@, j, R(u - kv[PyPos(Len(kv), sp + 1 - j)])),
                 !.right = PySet(@, j, R(kv[PyPos(Len(kv), sp + j)] - u)),
                 !.saved = Zero])

(* Variant: saved is computed from right[r+1] instead of left[j-r].       *)
BF_InnerSavedRight(s, j, r) ==
    LET rt == PyGet(s.right, r + 1)
        lf == PyGet(s.left, j - r)
        den == RAdd(rt, lf)
        temp == RDiv(PyGet(s.out, r), den)
    IN Do(s,
          PyInRange(Len(s.out), r) /\ PyInRange(Len(s.right), r + 1)
            /\ PyInRange(Len(s.left), j - r),
          Plain(Len(s.out), r) /\ Plain(Len(s.right), r + 1)
            /\ Plain(Len(s.left), j - r),
          {rt, lf, PyGet(s.out, r)}, {den},
          [s EXCEPT !.out = PySet(@, r, RAdd(s.saved, RMul(rt, temp))),
                    !.saved = RMul(rt, temp)])

(* temp = out[r] / (right[r+1] + left[j-r]); out[r] = saved + right[r+1]*temp; *)
(* saved = left[j-r] * temp                                                    *)
BF_Inner(s, j, r) ==
    LET rt == PyGet(s.right, r + 1)
        lf == PyGet(s.left, j - r)
        den == RAdd(rt, lf)
        temp == RDiv(PyGet(s.out, r), den)
    IN Do(s,
          PyInRange(Len(s.out), r) /\ PyInRange(Len(s.right), r + 1)
            /\ PyInRange(Len(s.left), j - r),
          Plain(Len(s.out), r) /\ Plain(Len(s.right), r + 1)
            /\ Plain(Len(s.left), j - r),
          {rt, lf, PyGet(s.out, r)}, {den},
          [s EXCEPT !.out = PySet(@, r, RAdd(s.saved, RMul(rt, temp))),
                    !.saved = RMul(lf, temp)])

RECURSIVE BF_InnerLoop(_, _, _)
BF_InnerLoop(s, j, r) ==
    IF r < j /\ s.err = "" THEN BF_InnerLoop(BF_Inner(s, j, r), j, r + 1) ELSE s

(* bfuncs_out.append(saved) *)
BF_Append(s) == Do(s, TRUE, TRUE, {}, {}, [s EXCEPT !.out = Append(@, s.saved)])

(* Variant: the outer loop stops one degree early.                        *)
BF_StopEarly(d, j) == j < d
BF_Continue(d, j) == j <= d

RECURSIVE BF_OuterLoop(_, _, _, _, _, _)
BF_OuterLoop(s, d, kv, sp, u, j) ==
    IF BF_Continue(d, j) /\ s.err = ""
    THEN BF_OuterLoop(BF_Append(BF_InnerLoop(BF_Knots(s, kv, sp, u, j), j, 0)),
                      d, kv, sp, u, j + 1)
    ELSE s

basis_functions(d, kv, sp, u) ==
    LET s == BF_OuterLoop(BF_Init(d), d, kv, sp, u, 1)
    IN [op |-> "basis_functions", err |-> s.err, idxOK |-> s.idxOK,
        divOK |-> s.divOK, initOK |-> s.initOK,
        value |-> IF s.err = "" THEN s.out ELSE <<>>]

(* ------------------------- basis_functions_ders ----------------------- *)
Min(x, y) == IF x < y THEN x ELSE y
Table(rows, cols) == Fill(rows, Fill(cols, None))
NumRows(d, ord) == Min(d, ord) + 1

BD_Init(d) ==
    [err |-> "", idxOK |-> TRUE, divOK |-> TRUE, initOK |-> TRUE,
     left |-> Fill(d + 1, None), right |-> Fill(d + 1, None),
     ndu |-> PySet2(Table(d + 1, d + 1), 0, 0, One),
     ders |-> <<>>, a |-> <<>>, saved |-> Zero, dd |-> Zero,
     s1 |-> 0, s2 |-> 1, fac |-> Zero]

(* left[j] = knot - knotvector[span+1-j]; right[j] = knotvector[span+j] - knot; saved = 0.0 *)
BD_Knots(s, kv, sp, u, j) ==
    Do(s,
       PyInRange(Len(kv), sp + 1 - j) /\ PyInRange(Len(kv), sp + j)
         /\ PyInRange(Len(s.left), j) /\ PyInRange(Len(s.right), j),
       Plain(Len(kv), sp + 1 - j) /\ Plain(Len(kv), sp + j)
         /\ Plain(Len(s.left), j) /\ Plain(Len(s.right), j),
       {}, {},
       [s EXCEPT !.left = PySet(@, j, R(u - kv[PyPos(Len(kv), sp + 1 - j)])),
                 !.right = PySet(@, j, R(kv[PyPos(Len(kv), sp + j)] - u)),
                 !.saved = Zero])

(* ndu[j][r] = right[r+1] + left[j-r]; temp = ndu[r][j-1] / ndu[j][r];       *)
(* ndu[r][j] = saved + right[r+1]*temp; saved = left[j-r]*temp               *)
BD_Inner(s, j, r) ==
    LET rt == PyGet(s.right, r + 1)
        lf == PyGet(s.left, j - r)
        den == RAdd(rt, lf)
        prev == PyGet2(s.ndu, r, j - 1)
        temp == RDiv(prev, den)
    IN Do(s,
          PyInRange(Len(s.right), r + 1) /\ PyInRange(Len(s.left), j - r)
            /\ PyIn2(s.ndu, j, r) /\ PyIn2(s.ndu, r, j - 1) /\ PyIn2(s.ndu, r, j),
          Plain(Len(s.right), r + 1) /\ Plain(Len(s.left), j - r)
            /\ Plain2(s.ndu, j, r) /\ Plain2(s.ndu, r, j - 1) /\ Plain2(s.ndu, r, j),
          {rt, lf, prev}, {den},
          [s EXCEPT !.ndu = PySet2(PySet2(@, j, r, den), r, j,
                                   RAdd(s.saved, RMul(rt, temp))),
                    !.saved = RMul(lf, temp)])

RECURSIVE BD_InnerLoop(_, _, _)
BD_InnerLoop(s, j, r) ==
    IF r < j /\ s.err = "" THEN BD_InnerLoop(BD_Inner(s, j, r), j, r + 1) ELSE s

(* ndu[j][j] = saved *)
BD_Diag(s, j) ==
    Do(s, PyIn2(s.ndu, j, j), Plain2(s.ndu, j, j), {}, {},
       [s EXCEPT !.ndu = PySet2(@, j, j, s.saved)])

RECURSIVE BD_Stage1(_, _, _, _, _, _)
BD_Stage1(s, d, kv, sp, u, j) ==
    IF j <= d /\ s.err = ""
    THEN BD_Stage1(BD_Diag(BD_InnerLoop(BD_Knots(s, kv, sp, u, j), j, 0), j),
                   d, kv, sp, u, j + 1)
    ELSE s

(* ders = [[None]*(degree+1) for y in range(min(degree, order)+1)] *)
BD_Alloc(s, d, ord) ==
    Do(s, TRUE, TRUE, {}, {}, [s EXCEPT !.ders = Table(NumRows(d, ord), d + 1)])

(* Variant: the basis functions are loaded from ndu[degree][j].           *)
BD_LoadTransposed(s, d, j) ==
    Do(s, PyIn2(s.ders, 0, j) /\ PyIn2(s.ndu, d, j),
       Plain2(s.ders, 0, j) /\ Plain2(s.ndu, d, j), {}, {},
       [s EXCEPT !.ders = PySet2(@, 0, j, PyGet2(s.ndu, d, j)),
                 !.initOK = @ /\ ~IsNone(PyGet2(s.ndu, d, j))])

(* ders[0][j] = ndu[j][degree] *)
BD_Load(s, d, j) ==
    Do(s, PyIn2(s.ders, 0, j) /\ PyIn2(s.ndu, j, d),
       Plain2(s.ders, 0, j) /\ Plain2(s.ndu, j, d), {}, {},
       [s EXCEPT !.ders = PySet2(@, 0, j, PyGet2(s.ndu, j, d)),
                 !.initOK = @ /\ ~IsNone(PyGet2(s.ndu, j, d))])

RECURSIVE BD_LoadLoop(_, _, _)
BD_LoadLoop(s, d, j) ==
    IF j < d + 1 /\ s.err = "" THEN BD_LoadLoop(BD_Load(s, d, j), d, j + 1) ELSE s

(* a = [[None]*(degree+1) for y in range(2)] *)
BD_AllocA(s, d) ==
    Do(s, TRUE, TRUE, {}, {}, [s EXCEPT !.a = Table(2, d + 1)])

(* s1 = 0; s2 = 1; a[0][0] = 1.0 *)
BD_ResetRow(s) ==
    Do(s, PyIn2(s.a, 0, 0), Plain2(s.a, 0, 0), {}, {},
       [s EXCEPT !.s1 = 0, !.s2 = 1, !.a = PySet2(@, 0, 0, One)])

(* d = 0.0; if r >= k: a[s2][0] = a[s1][0] / ndu[pk+1][rk]; d = a[s2][0] * ndu[rk][pk] *)
BD_First(s, d, r, k) ==
    LET rk == r - k
        pk == d - k
        num == PyGet2(s.a, s.s1, 0)
        den == PyGet2(s.ndu, pk + 1, rk)
        w == PyGet2(s.ndu, rk, pk)
        q == RDiv(num, den)
    IN IF r >= k
       THEN Do(s,
               PyIn2(s.a, s.s2, 0) /\ PyIn2(s.a, s.s1, 0)
                 /\ PyIn2(s.ndu, pk + 1, rk) /\ PyIn2(s.ndu, rk, pk),
               Plain2(s.a, s.s2, 0) /\ Plain2(s.a, s.s1, 0)
                 /\ Plain2(s.ndu, pk + 1, rk) /\ Plain2(s.ndu, rk, pk),
               {num, den, w}, {den},
               [s EXCEPT !.a = PySet2(@, s.s2, 0, q), !.dd = RMul(q, w)])
       ELSE Do(s, TRUE, TRUE, {}, {}, [s EXCEPT !.dd = Zero])

(* Variant: the lower index bound ignores rk < -1.                        *)
J1FromOne(r, k) == 1
J1(r, k) == IF r - k >= -1 THEN 1 ELSE -(r - k)
J2(d, r, k) == IF (r - 1) <= d - k THEN k - 1 ELSE d - r

(* a[s2][j] = (a[s1][j] - a[s1][j-1]) / ndu[pk+1][rk+j]; d += a[s2][j] * ndu[rk+j][pk] *)
BD_Mid(s, d, r, k, j) ==
    LET rk == r - k
        pk == d - k
        x == PyGet2(s.a, s.s1, j)
        y == PyGet2(s.a, s.s1, j - 1)
        den == PyGet2(s.ndu, pk + 1, rk + j)
        w == PyGet2(s.ndu, rk + j, pk)
        q == RDiv(RSub(x, y), den)
    IN Do(s,
          PyIn2(s.a, s.s2, j) /\ PyIn2(s.a, s.s1, j) /\ PyIn2(s.a, s.s1, j - 1)
            /\ PyIn2(s.ndu, pk + 1, rk + j) /\ PyIn2(s.ndu, rk + j, pk),
          Plain2(s.a, s.s2, j) /\ Plain2(s.a, s.s1, j) /\ Plain2(s.a, s.s1, j - 1)
            /\ Plain2(s.ndu, pk + 1, rk + j) /\ Plain2(s.ndu, rk + j, pk),
          {x, y, den, w}, {den},
          [s EXCEPT !.a = PySet2(@, s.s2, j, q), !.dd = RAdd(s.dd, RMul(q, w))])

RECURSIVE BD_MidLoop(_, _, _, _, _, _)
BD_MidLoop(s, d, r, k, j, j2) ==
    IF j < j2 + 1 /\ s.err = ""
    THEN BD_MidLoop(BD_Mid(s, d, r, k, j), d, r, k, j + 1, j2) ELSE s

(* if r <= pk: a[s2][k] = -a[s1][k-1] / ndu[pk+1][r]; d += a[s2][k] * ndu[r][pk] *)
BD_Last(s, d, r, k) ==
    LET pk == d - k
        x == PyGet2(s.a, s.s1, k - 1)
        den == PyGet2(s.ndu, pk + 1, r)
        w == PyGet2(s.ndu, r, pk)
        q == RDiv(RNeg(x), den)
    IN IF r <= pk
       THEN Do(s,
               PyIn2(s.a, s.s2, k) /\ PyIn2(s.a, s.s1, k - 1)
                 /\ PyIn2(s.ndu, pk + 1, r) /\ PyIn2(s.ndu, r, pk),
               Plain2(s.a, s.s2, k) /\ Plain2(s.a, s.s1, k - 1)
                 /\ Plain2(s.ndu, pk + 1, r) /\ Plain2(s.ndu, r, pk),
               {x, den, w}, {den},
               [s EXCEPT !.a = PySet2(@, s.s2, k, q), !.dd = RAdd(s.dd, RMul(q, w))])
       ELSE s

(* ders[k][r] = d; j = s1; s1 = s2; s2 = j *)
BD_Store(s, r, k) ==
    Do(s, PyIn2(s.ders, k, r), Plain2(s.ders, k, r), {}, {},
       [s EXCEPT !.ders = PySet2(@, k, r, s.dd), !.s1 = s.s2, !.s2 = s.s1])

BD_Order(ord, k) == k < ord + 1

RECURSIVE BD_KLoop(_, _, _, _, _)
BD_KLoop(s, d, ord, r, k) ==
    IF BD_Order(ord, k) /\ s.err = ""
    THEN BD_KLoop(BD_Store(BD_Last(BD_MidLoop(BD_First(s, d, r, k), d, r, k,
                                              J1(r, k), J2(d, r, k)),
                                   d, r, k),
                           r, k),
                  d, ord, r, k + 1)
    ELSE s

RECURSIVE BD_Stage2(_, _, _, _)
BD_Stage2(s, d, ord, r) ==
    IF r < d + 1 /\ s.err = ""
    THEN BD_Stage2(BD_KLoop(BD_ResetRow(s), d, ord, r, 1), d, ord, r + 1)
    ELSE s

(* ders[k][j] *= r *)
BD_Scale(s, k, j) ==
    Do(s, PyIn2(s.ders, k, j), Plain2(s.ders, k, j), {PyGet2(s.ders, k, j)}, {},
       [s EXCEPT !.ders = PySet2(@, k, j, RMul(PyGet2(s.ders, k, j), s.fac))])

RECURSIVE BD_ScaleRow(_, _, _, _)
BD_ScaleRow(s, d, k, j) ==
    IF j < d + 1 /\ s.err = "" THEN BD_ScaleRow(BD_Scale(s, k, j), d, k, j + 1) ELSE s

(* r = float(degree); for k: (scale row k); r *= (degree - k) *)
RECURSIVE BD_Stage3(_, _, _, _)
BD_Stage3(s, d, ord, k) ==
    IF k < ord + 1 /\ s.err = ""
    THEN LET t == BD_ScaleRow(s, d, k, 0)
         IN BD_Stage3([t EXCEPT !.fac = RMul(@, R(d - k))], d, ord, k + 1)
    ELSE s

basis_functions_ders(d, kv, sp, u, ord) ==
    LET t1 == BD_Stage1(BD_Init(d), d, kv, sp, u, 1)
        t2 == BD_AllocA(BD_LoadLoop(BD_Alloc(t1, d, ord), d, 0), d)
        t3 == BD_Stage2(t2, d, ord, 0)
        t4 == BD_Stage3([t3 EXCEPT !.fac = R(d)], d, ord, 1)
    IN [op |-> "basis_functions_ders", order |-> ord, err |-> t4.err,
        idxOK |-> t4.idxOK, divOK |-> t4.divOK, initOK |-> t4.initOK,
        value |-> IF t4.err = "" THEN t4.ders ELSE <<>>]

(* ------------------------------ inputs -------------------------------- *)
Knots == {2 * i : i \in 0..MaxKnot}
Params == -1..(2 * MaxKnot + 1)

RECURSIVE NonDecreasingSeqs(_, _, _)
NonDecreasingSeqs(len, lo, hi) ==
    IF len = 0 THEN {<<>>}
    ELSE UNION {{<<v>> \o s : s \in NonDecreasingSeqs(len - 1, v, hi)}
                : v \in {k \in Knots : lo <= k /\ k <= hi}}

(* Knot vectors whose first degree+1 and last degree+1 entries repeat.    *)
EndPairs == {p \in Knots \X Knots : p[1] <= p[2]}
EndRepeated(d) ==
    UNION {UNION {{Fill(d + 1, p[1]) \o s \o Fill(d + 1, p[2])
                   : s \in NonDecreasingSeqs(k, p[1], p[2])}
                  : k \in 0..MaxInterior}
           : p \in EndPairs}

TypeOK == pc \in {"idle", "returned", "loop", "span"}

NoCall == [op |-> "none"]

Init ==
    /\ pc = "idle"
    /\ degree = 0
    /\ knotvector = <<>>
    /\ knot = 0
    /\ low = 0
    /\ high = 0
    /\ mid = 0
    /\ span = 0
    /\ bfuncs = NoCall
    /\ dres = NoCall
    /\ kvout = NoCall

AnySeqs(len) == UNION {[1..k -> Knots] : k \in 0..len}
Degrees == 0..MaxDegree
CtrlptCounts == 0..(MaxDegree + MaxInterior + 1)

CallNormalize(kv) ==
    /\ pc = "idle"
    /\ kvout' = normalize_knotvector(kv)
    /\ pc' = "returned"
    /\ UNCHANGED <<degree, knotvector, knot, low, high, mid, span, bfuncs, dres>>

CallAutogen(d, nc) ==
    /\ pc = "idle"
    /\ kvout' = autogen_knotvector(d, nc)
    /\ pc' = "returned"
    /\ UNCHANGED <<degree, knotvector, knot, low, high, mid, span, bfuncs, dres>>

CallFindSpan(d, kv, u) ==
    /\ pc = "idle"
    /\ degree' = d
    /\ knotvector' = kv
    /\ knot' = u
    /\ IF AtUpperEnd(d, kv, u)
       THEN /\ span' = LastBasis(d, kv)
            /\ pc' = "span"
            /\ UNCHANGED <<low, high, mid>>
       ELSE /\ low' = d
            /\ high' = LastBasis(d, kv) + 1
            /\ mid' = Mid(d, LastBasis(d, kv) + 1)
            /\ pc' = "loop"
            /\ UNCHANGED span
    /\ UNCHANGED <<bfuncs, dres, kvout>>

FindSpanLoop ==
    /\ pc = "loop"
    /\ LoopCond(knotvector, mid, knot)
    /\ IF GoLeft(knotvector, mid, knot)
       THEN /\ high' = mid
            /\ mid' = Mid(low, mid)
            /\ UNCHANGED low
       ELSE /\ low' = mid
            /\ mid' = Mid(mid, high)
            /\ UNCHANGED high
    /\ UNCHANGED <<pc, degree, knotvector, knot, span, bfuncs, dres, kvout>>

FindSpanReturn ==
    /\ pc = "loop"
    /\ ~LoopCond(knotvector, mid, knot)
    /\ span' = mid
    /\ pc' = "span"
    /\ UNCHANGED <<degree, knotvector, knot, low, high, mid, bfuncs, dres, kvout>>

CallBasisFunctions ==
    /\ pc = "span"
    /\ bfuncs = NoCall
    /\ bfuncs' = basis_functions(degree, knotvector, span, knot)
    /\ UNCHANGED <<pc, degree, knotvector, knot, low, high, mid, span, dres, kvout>>

CallBasisFunctionsDers(ord) ==
    /\ pc = "span"
    /\ bfuncs # NoCall
    /\ dres = NoCall
    /\ dres' = basis_functions_ders(degree, knotvector, span, knot, ord)
    /\ UNCHANGED <<pc, degree, knotvector, knot, low, high, mid, span, bfuncs, kvout>>

Next ==
    \/ \E kv \in AnySeqs(MaxLen) : CallNormalize(kv)
    \/ \E d \in Degrees, nc \in CtrlptCounts : CallAutogen(d, nc)
    \/ \E d \in 1..MaxDegree, u \in Params :
         \E kv \in EndRepeated(d) : CallFindSpan(d, kv, u)
    \/ FindSpanLoop
    \/ FindSpanReturn
    \/ CallBasisFunctions
    \/ \E ord \in 0..(degree + 1) : CallBasisFunctionsDers(ord)

Spec == Init /\ [][Next]_vars

(* ------------------------- fairness for the loop ---------------------- *)
(* A running call of find_span keeps executing its loop.                  *)
LiveSpec == Spec /\ WF_vars(FindSpanLoop) /\ WF_vars(FindSpanReturn)

(* ---------------------------- preconditions --------------------------- *)
NonDecreasing(kv) == \A i \in 1..(Len(kv) - 1) : kv[i] <= kv[i + 1]

(* first and last value repeated exactly degree+1 times *)
Clamped(d, kv) ==
    /\ Len(kv) >= 2 * (d + 1)
    /\ NonDecreasing(kv)
    /\ \A i \in 1..(d + 1) : kv[i] = kv[1]
    /\ kv[d + 2] # kv[1]
    /\ \A i \in (Len(kv) - d)..Len(kv) : kv[i] = kv[Len(kv)]
    /\ kv[Len(kv) - d - 1] # kv[Len(kv)]

InDomain(d, kv, u) == At(kv, d) <= u /\ u <= At(kv, LastBasis(d, kv) + 1)

Valid == degree >= 1 /\ Clamped(degree, knotvector) /\ InDomain(degree, knotvector, knot)

RECURSIVE RSum(_)
RSum(q) == IF q = <<>> THEN Zero ELSE RAdd(Head(q), RSum(Tail(q)))

RNonDecreasing(q) == \A i \in 1..(Len(q) - 1) : RLeq(q[i], q[i + 1])

(* ------------------------------- claims ------------------------------- *)
(* C1: for a clamped knot vector and an in-domain parameter, find_span    *)
(* returns i with degree <= i <= n and kv[i] <= u < kv[i+1], except that  *)
(* it returns n when u = kv[n+1]; it returns degree when u is the first   *)
(* knot value.                                                            *)
C1_SpanContainsKnot ==
    (pc = "span" /\ Valid) =>
        LET n == LastBasis(degree, knotvector)
        IN /\ degree <= span /\ span <= n
           /\ IF knot = At(knotvector, n + 1)
              THEN span = n
              ELSE At(knotvector, span) <= knot /\ knot < At(knotvector, span + 1)
           /\ (knot = At(knotvector, 0) => span = degree)

C1_Witness ==
    /\ pc = "span" /\ Valid
    /\ span > degree
    /\ mid = span
    /\ At(knotvector, span) < knot
    /\ knot < At(knotvector, span + 1)

(* C2: the values basis_functions returns for the span of find_span sum   *)
(* to exactly 1.                                                          *)
C2_PartitionOfUnity ==
    (bfuncs.op = "basis_functions" /\ Valid) =>
        bfuncs.err = "" /\ RSum(bfuncs.value) = One

C2_Witness ==
    /\ bfuncs.op = "basis_functions" /\ Valid
    /\ degree = 2
    /\ \A i \in 1..3 : bfuncs.value[i].n > 0

(* C3: basis_functions returns exactly degree+1 values, none negative.    *)
C3_NonNegativeRow ==
    (bfuncs.op = "basis_functions" /\ Valid) =>
        /\ bfuncs.err = ""
        /\ Len(bfuncs.value) = degree + 1
        /\ \A i \in 1..Len(bfuncs.value) : bfuncs.value[i].n >= 0

C3_Witness ==
    /\ bfuncs.op = "basis_functions" /\ Valid
    /\ degree = 2
    /\ Len(bfuncs.value) = 3
    /\ bfuncs.value[1].n = 0
    /\ bfuncs.value[3].n > 0

(* C4: row 0 of basis_functions_ders(order = 0) equals the list of        *)
(* basis_functions, entry by entry.                                       *)
C4_RowZeroEqualsBasis ==
    (bfuncs.op = "basis_functions" /\ dres.op = "basis_functions_ders"
       /\ dres.order = 0 /\ Valid) =>
        /\ bfuncs.err = "" /\ dres.err = ""
        /\ Len(dres.value) = 1
        /\ dres.value[1] = bfuncs.value

C4_Witness ==
    /\ bfuncs.op = "basis_functions" /\ dres.op = "basis_functions_ders"
    /\ dres.order = 0 /\ Valid
    /\ degree = 2
    /\ dres.err = ""
    /\ \A i \in 1..3 : dres.value[1][i].n > 0

(* C5: called with order > degree, basis_functions_ders returns without   *)
(* error a table of degree+1 rows of degree+1 entries.                    *)
C5_OrderAboveDegree ==
    (dres.op = "basis_functions_ders" /\ dres.order > degree /\ Valid) =>
        /\ dres.err = ""
        /\ Len(dres.value) = degree + 1
        /\ \A k \in 1..Len(dres.value) : Len(dres.value[k]) = degree + 1

C7_NoInteriorNoError ==
    /\ (kvout.op = "autogen" /\ kvout.degree # 0 /\ kvout.num_ctrlpts # 0
          /\ kvout.num_ctrlpts - kvout.degree <= 0) =>
            /\ kvout.err = ""
            /\ kvout.value = Fill(kvout.degree + 1, Zero) \o Fill(kvout.degree + 1, One)
    /\ (kvout.op = "autogen" /\ kvout.err # "") =>
            /\ kvout.err = "ValueError"
            /\ (kvout.degree = 0 \/ kvout.num_ctrlpts = 0)

(* C8: normalize_knotvector maps a non-decreasing kv with kv[0] # kv[-1]  *)
(* to (kv[i]-kv[0])/(kv[-1]-kv[0]), same length, first 0, last 1,         *)
(* non-decreasing; the empty sequence to the empty sequence; and fails    *)
(* with a division error when kv[0] = kv[-1].                             *)
C8_Normalized ==
    (kvout.op = "normalize") =>
        LET kv == kvout.arg
            v == kvout.value
        IN /\ (Len(kv) = 0 => kvout.err = "" /\ v = <<>>)
           /\ (Len(kv) > 0 /\ kv[1] = kv[Len(kv)] => kvout.err = "ZeroDivisionError")
           /\ (Len(kv) > 0 /\ kv[1] # kv[Len(kv)] /\ NonDecreasing(kv) =>
                 /\ kvout.err = ""
                 /\ Len(v) = Len(kv)
                 /\ v[1] = Zero
                 /\ v[Len(v)] = One
                 /\ \A i \in 1..Len(kv) :
                      v[i].n * (kv[Len(kv)] - kv[1]) = (kv[i] - kv[1]) * v[i].d
                 /\ RNonDecreasing(v))

C8_Witness ==
    /\ kvout.op = "normalize" /\ kvout.err = ""
    /\ Len(kvout.arg) = 3
    /\ 0 < kvout.arg[1] /\ kvout.arg[1] < kvout.arg[2] /\ kvout.arg[2] < kvout.arg[3]
    /\ kvout.value[2] = [n |-> 1, d |-> 2]

(* C9: on in-domain input find_span terminates: u = kv[n+1] returns at    *)
(* once, and otherwise every iteration strictly shrinks [low, high] until *)
(* the loop condition fails.                                              *)
C9_FindSpanTerminates ==
    /\ [][(pc = "idle" /\ pc' # "idle" /\ degree' >= 1
            /\ Clamped(degree', knotvector')
            /\ knot' = At(knotvector', LastBasis(degree', knotvector') + 1))
          => pc' = "span"]_vars
    /\ [][(pc = "loop" /\ Valid /\ pc' = "loop") => high' - low' < high - low]_vars
    /\ [](pc = "loop" /\ Valid => <>(pc = "span"))

C9_Witness ==
    /\ pc = "span" /\ Valid
    /\ knot < At(knotvector, LastBasis(degree, knotvector) + 1)
    /\ (low > degree \/ high < LastBasis(degree, knotvector) + 1)

(* C10: with the span of find_span and order <= degree, basis_functions   *)
(* and basis_functions_ders complete without failure: every subscript is  *)
(* in 0..len-1, every table entry read was written before, every divisor  *)
(* is strictly positive.                                                  *)
C10_NoFailure ==
    /\ (bfuncs.op = "basis_functions" /\ Valid) =>
          bfuncs.err = "" /\ bfuncs.idxOK /\ bfuncs.initOK /\ bfuncs.divOK
    /\ (dres.op = "basis_functions_ders" /\ dres.order <= degree /\ Valid) =>
          dres.err = "" /\ dres.idxOK /\ dres.initOK /\ dres.divOK

C10_Witness ==
    /\ bfuncs.op = "basis_functions" /\ dres.op = "basis_functions_ders" /\ Valid
    /\ degree = 2 /\ dres.order = 2
    /\ dres.err = "" /\ dres.idxOK /\ dres.initOK /\ dres.divOK
    /\ Len(dres.value) = 3
    /\ At(knotvector, span) < knot
=============================================================================
